---- MODULE Spec2Model ----
(***************************************************************************)
(* The Bitcoin price recorder (fetch_bitcoin_price.py) as a state machine. *)
(* One invocation of the script is one pass through its top-level          *)
(* statements; the bitcoin_price table of the PostgreSQL database is the   *)
(* only state that survives from one invocation to the next.               *)
(***************************************************************************)
EXTENDS Integers, Sequences, FiniteSets, TLC

\* Bounds of the model.
MaxRuns == 3      \* invocations of the script
MaxTime == 2      \* readings of the local clock are 0..MaxTime
MaxPrice == 2     \* quoted prices are 1..MaxPrice

\* A Python name that is not bound yet.
Unbound == -1

\* UTC offset of the database session's TimeZone, in clock ticks.
SessionOffset == 1

Times == 0 .. MaxTime
Prices == 1 .. MaxPrice

\* JSON documents the endpoint can answer with: the expected shape, a
\* document with no nested 'usd' key, and an error payload with no 'bitcoin'.
Docs ==
    {[bitcoin |-> [usd |-> p]] : p \in Prices}
        \cup {[bitcoin |-> [eur |-> 1]], [status |-> [error_code |-> 429]]}

\* Response bodies: json is <<d>> when the body is the JSON text of d, and
\* << >> when the body is not JSON at all (an empty body).
Bodies == {[json |-> <<d>>] : d \in Docs} \cup {[json |-> << >>]}

\* The step, if any, at which the environment fails this invocation.
Faults == {"none", "network", "connect", "create", "insert", "commit"}

VARIABLES
    tableExists,    \* the bitcoin_price table exists (committed)
    rows,           \* its committed rows: [timestamp, price_usd]
    tablesCreated,  \* how many times the table was actually created
    run,            \* invocations started so far
    pc,             \* the statement the running invocation is at
    fault,          \* the environment's failure in this invocation
    response,       \* << >> or <<body>>
    data,           \* << >> or <<document>>
    price_usd,
    timestamp,
    conn,           \* "none", "open", "closed"
    cur,            \* "none", "open", "closed"
    txCreate,       \* the open transaction created the table
    txRows,         \* rows the open transaction inserted
    stdout,         \* lines this invocation printed
    exitStatus,     \* Unbound while running, then 0 or 1
    trace,          \* statements this invocation has executed, in order
    startExists,    \* tableExists when this invocation started
    startRows,      \* rows when this invocation started
    successes       \* what each earlier successful invocation captured

vars ==
    <<tableExists, rows, tablesCreated, run, pc, fault, response, data,
      price_usd, timestamp, conn, cur, txCreate, txRows, stdout, exitStatus,
      trace, startExists, startRows, successes>>

db == <<tableExists, rows, tablesCreated>>
tx == <<txCreate, txRows>>
locals == <<response, data, price_usd, timestamp>>
handles == <<conn, cur>>
start == <<run, fault, startExists, startRows, successes>>

Init ==
    /\ tableExists = FALSE
    /\ rows = {}
    /\ tablesCreated = 0
    /\ run = 0
    /\ pc = "idle"
    /\ fault = "none"
    /\ response = << >>
    /\ data = << >>
    /\ price_usd = Unbound
    /\ timestamp = Unbound
    /\ conn = "none"
    /\ cur = "none"
    /\ txCreate = FALSE
    /\ txRows = {}
    /\ stdout = << >>
    /\ exitStatus = Unbound
    /\ trace = << >>
    /\ startExists = FALSE
    /\ startRows = {}
    /\ successes = << >>

Terminal == {"idle", "done", "aborted"}

\* Raise with the exception caught and the process exiting normally.
RaiseExitZero(s) ==
    /\ pc' = "aborted"
    /\ exitStatus' = 0
    /\ trace' = Append(trace, s)

\* An uncaught exception in statement s: the interpreter prints the
\* traceback and exits with status 1; nothing else of the script runs.
Raise(s) ==
    /\ pc' = "aborted"
    /\ exitStatus' = 1
    /\ trace' = Append(trace, s)

\* Statement s completed; control falls through to statement n.
Goto(s, n) ==
    /\ pc' = n
    /\ trace' = Append(trace, s)
    /\ UNCHANGED exitStatus

\* ToTimestamptz losing the clock's last digit.
TruncatedTimestamptz(ts) == (ts \div 2) * 2 - SessionOffset

\* A naive local timestamp bound to a TIMESTAMPTZ parameter: the server
\* reads it in the session's time zone.
ToTimestamptz(ts) == ts - SessionOffset

\* NewRow storing the price rounded down to an even amount.
NewRowRounded(ts, p) ==
    [timestamp |-> ts - SessionOffset, price_usd |-> (p \div 2) * 2]

\* The row the INSERT's two parameters make.
NewRow(ts, p) == [timestamp |-> ToTimestamptz(ts), price_usd |-> p]

Conflict(tbl, row) == \E r \in tbl : r.timestamp = row.timestamp

\* The INSERT with the conflicting row replaced (DO UPDATE).
InsertOnConflictDoUpdate(tbl, row) ==
    {r \in tbl : r.timestamp # row.timestamp} \cup {row}

\* INSERT ... ON CONFLICT (timestamp) DO NOTHING
InsertOnConflictDoNothing(tbl, row) ==
    IF Conflict(tbl, row) THEN tbl ELSE tbl \cup {row}

\* CREATE TABLE preceded by DROP TABLE IF EXISTS: always creates.
CreateTableAlways(exists) == TRUE

\* CREATE TABLE IF NOT EXISTS: whether the statement creates the table.
CreateTableIfNotExists(exists) == ~exists

\* data['bitcoin']['usd'] finds both keys.
HasPrice(d) == "bitcoin" \in DOMAIN d /\ "usd" \in DOMAIN d.bitcoin

\* A new process runs the script: fresh names, no connection, and the
\* server has rolled back whatever an aborted predecessor left uncommitted.
Start ==
    /\ pc \in Terminal
    /\ run < MaxRuns
    /\ run' = run + 1
    /\ \E f \in Faults : fault' = f
    /\ pc' = "get"
    /\ response' = << >>
    /\ data' = << >>
    /\ price_usd' = Unbound
    /\ timestamp' = Unbound
    /\ conn' = "none"
    /\ cur' = "none"
    /\ txCreate' = FALSE
    /\ txRows' = {}
    /\ stdout' = << >>
    /\ exitStatus' = Unbound
    /\ trace' = << >>
    /\ startExists' = tableExists
    /\ startRows' = rows
    /\ successes' =
        IF pc = "done"
        THEN Append(successes,
                    [timestamp |-> timestamp, price_usd |-> price_usd,
                     inserted |-> ~Conflict(startRows, NewRow(timestamp, price_usd))])
        ELSE successes
    /\ UNCHANGED db

\* response = requests.get(API_URL)
Get ==
    /\ pc = "get"
    /\ IF fault = "network"
       THEN Raise("get") /\ UNCHANGED response
       ELSE /\ \E b \in Bodies : response' = <<b>>
            /\ Goto("get", "json")
    /\ UNCHANGED <<db, tx, handles, start, data, price_usd, timestamp, stdout>>

\* data = response.json()
Json ==
    /\ pc = "json"
    /\ IF response[1].json = << >>
       THEN Raise("json") /\ UNCHANGED data
       ELSE data' = response[1].json /\ Goto("json", "extract")
    /\ UNCHANGED <<db, tx, handles, start, response, price_usd, timestamp, stdout>>

\* Extract with data.get('bitcoin', {}).get('usd', 1): a default, no error.
ExtractWithDefault ==
    /\ pc = "extract"
    /\ price_usd' = IF HasPrice(data[1]) THEN data[1].bitcoin.usd ELSE 1
    /\ Goto("extract", "now")
    /\ UNCHANGED <<db, tx, handles, start, response, data, timestamp, stdout>>

\* price_usd = data['bitcoin']['usd']
Extract ==
    /\ pc = "extract"
    /\ IF HasPrice(data[1])
       THEN price_usd' = data[1].bitcoin.usd /\ Goto("extract", "now")
       ELSE Raise("extract") /\ UNCHANGED price_usd
    /\ UNCHANGED <<db, tx, handles, start, response, data, timestamp, stdout>>

\* timestamp = pd.Timestamp.now()
Now ==
    /\ pc = "now"
    /\ \E t \in Times : timestamp' = t
    /\ Goto("now", "connect")
    /\ UNCHANGED <<db, tx, handles, start, response, data, price_usd, stdout>>

\* Connect with the database block in try/except: a failure is swallowed
\* and control reaches the print.
ConnectCaught ==
    /\ pc = "connect"
    /\ IF fault = "connect"
       THEN Goto("connect", "print") /\ UNCHANGED conn
       ELSE conn' = "open" /\ Goto("connect", "cursor")
    /\ UNCHANGED <<db, tx, cur, start, locals, stdout>>

\* conn = psycopg2.connect(**DB_SETTINGS)
Connect ==
    /\ pc = "connect"
    /\ IF fault = "connect"
       THEN Raise("connect") /\ UNCHANGED conn
       ELSE conn' = "open" /\ Goto("connect", "cursor")
    /\ UNCHANGED <<db, tx, cur, start, locals, stdout>>

\* cur = conn.cursor()
Cursor ==
    /\ pc = "cursor"
    /\ cur' = "open"
    /\ Goto("cursor", "create")
    /\ UNCHANGED <<db, tx, conn, start, locals, stdout>>

\* cur.execute("CREATE TABLE IF NOT EXISTS bitcoin_price (...)")
CreateTable ==
    /\ pc = "create"
    /\ IF fault = "create"
       THEN Raise("create") /\ UNCHANGED txCreate
       ELSE /\ txCreate' = CreateTableIfNotExists(tableExists \/ txCreate)
            /\ Goto("create", "insert")
    /\ UNCHANGED <<db, txRows, handles, start, locals, stdout>>

\* Insert in try/finally: the cursor and connection are closed on failure.
InsertWithCleanup ==
    /\ pc = "insert"
    /\ IF fault = "insert"
       THEN /\ Raise("insert")
            /\ cur' = "closed"
            /\ conn' = "closed"
            /\ UNCHANGED txRows
       ELSE /\ txRows' =
                InsertOnConflictDoNothing(rows \cup txRows,
                                          NewRow(timestamp, price_usd)) \ rows
            /\ Goto("insert", "commit")
            /\ UNCHANGED handles
    /\ UNCHANGED <<db, txCreate, start, locals, stdout>>

\* cur.execute("INSERT ... ON CONFLICT (timestamp) DO NOTHING",
\*             [timestamp, price_usd])
Insert ==
    /\ pc = "insert"
    /\ IF fault = "insert"
       THEN Raise("insert") /\ UNCHANGED txRows
       ELSE /\ txRows' =
                InsertOnConflictDoNothing(rows \cup txRows,
                                          NewRow(timestamp, price_usd)) \ rows
            /\ Goto("insert", "commit")
    /\ UNCHANGED <<db, txCreate, handles, start, locals, stdout>>

\* Commit of a transaction that replaced the table's contents
\* (as DataFrame.to_sql(if_exists='replace') would).
CommitReplace ==
    /\ pc = "commit"
    /\ IF fault = "commit"
       THEN Raise("commit") /\ UNCHANGED <<db, tx>>
       ELSE /\ tableExists' = (tableExists \/ txCreate)
            /\ tablesCreated' = IF txCreate THEN tablesCreated + 1 ELSE tablesCreated
            /\ rows' = txRows
            /\ txCreate' = FALSE
            /\ txRows' = {}
            /\ Goto("commit", "cur_close")
    /\ UNCHANGED <<handles, start, locals, stdout>>

\* conn.commit()
Commit ==
    /\ pc = "commit"
    /\ IF fault = "commit"
       THEN Raise("commit") /\ UNCHANGED <<db, tx>>
       ELSE /\ tableExists' = (tableExists \/ txCreate)
            /\ tablesCreated' = IF txCreate THEN tablesCreated + 1 ELSE tablesCreated
            /\ rows' = rows \cup txRows
            /\ txCreate' = FALSE
            /\ txRows' = {}
            /\ Goto("commit", "cur_close")
    /\ UNCHANGED <<handles, start, locals, stdout>>

\* CloseCursor with the print moved up: the line is printed before the
\* connection is closed.
CloseCursorThenPrint ==
    /\ pc = "cur_close"
    /\ cur' = "closed"
    /\ Goto("cur_close", "print")
    /\ UNCHANGED <<db, tx, conn, start, locals, stdout>>

\* cur.close()
CloseCursor ==
    /\ pc = "cur_close"
    /\ cur' = "closed"
    /\ Goto("cur_close", "conn_close")
    /\ UNCHANGED <<db, tx, conn, start, locals, stdout>>

\* conn.close()
CloseConn ==
    /\ pc = "conn_close"
    /\ conn' = "closed"
    /\ Goto("conn_close", "print")
    /\ UNCHANGED <<db, tx, cur, start, locals, stdout>>

\* print(f"Inserted Bitcoin price {price_usd} USD at {timestamp}"), the
\* last statement: the interpreter then exits with status 0.
PrintLine ==
    /\ pc = "print"
    /\ stdout' = Append(stdout, [price_usd |-> price_usd, timestamp |-> timestamp])
    /\ pc' = "done"
    /\ exitStatus' = 0
    /\ trace' = Append(trace, "print")
    /\ UNCHANGED <<db, tx, handles, start, locals>>

Next ==
    \/ Start
    \/ Get
    \/ Json
    \/ Extract
    \/ Now
    \/ Connect
    \/ Cursor
    \/ CreateTable
    \/ Insert
    \/ Commit
    \/ CloseCursor
    \/ CloseConn
    \/ PrintLine

Spec == Init /\ [][Next]_vars

(***************************************************************************)
(* The claims.                                                             *)
(***************************************************************************)

Last(s) == s[Len(s)]

Range(s) == {s[i] : i \in 1 .. Len(s)}

IsPrefix(s, t) ==
    /\ Len(s) <= Len(t)
    /\ \A i \in 1 .. Len(s) : s[i] = t[i]

\* The running invocation captured a timestamp that a row committed before
\* the invocation started already carries.
TimestampTaken ==
    /\ timestamp # Unbound
    /\ \E r \in startRows : r.timestamp = ToTimestamptz(timestamp)

\* The running invocation captured a timestamp no earlier row carries.
TimestampFresh ==
    /\ timestamp # Unbound
    /\ \A r \in startRows : r.timestamp # ToTimestamptz(timestamp)

\* C1: the table never holds two rows with the same timestamp; an invocation
\* whose captured timestamp is that of an existing row leaves the table as it
\* found it (the row keeps its price), aborts only where the environment
\* fails it, and with no such failure ends normally with status 0.
C1_UniqueTimestamps ==
    /\ \A r1, r2 \in rows : r1.timestamp = r2.timestamp => r1 = r2
    /\ TimestampTaken =>
        /\ rows = startRows
        /\ pc = "aborted" => fault # "none" /\ Last(trace) = fault
        /\ pc \in {"done", "aborted"} /\ fault = "none" =>
            pc = "done" /\ exitStatus = 0

C1_Witness ==
    /\ pc = "done"
    /\ TimestampTaken
    /\ \E r \in rows :
        r.timestamp = ToTimestamptz(timestamp) /\ r.price_usd # price_usd
    /\ Cardinality(rows) = 1

\* C2: once the parsed response lacks the 'bitcoin' key or the nested 'usd'
\* key, the invocation gets no further than the extraction: no connection,
\* no statement executed, table unchanged, nothing printed, and it ends
\* aborted at the extraction with exit status 1.
C2_MissingKeyAborts ==
    data # << >> /\ ~HasPrice(data[1]) =>
        /\ pc \in {"extract", "aborted"}
        /\ pc = "aborted" => Last(trace) = "extract" /\ exitStatus = 1
        /\ exitStatus # 0
        /\ price_usd = Unbound
        /\ timestamp = Unbound
        /\ conn = "none" /\ cur = "none"
        /\ ~txCreate /\ txRows = {}
        /\ Range(trace) \cap {"connect", "create", "insert", "commit"} = {}
        /\ rows = startRows /\ tableExists = startExists
        /\ stdout = << >>

C2_Witness ==
    /\ pc = "aborted"
    /\ data # << >>
    /\ "bitcoin" \notin DOMAIN data[1]
    /\ rows # {}

\* C3: when opening the connection fails, the invocation is aborted at the
\* connect with the HTTP call made and price and timestamp captured; the
\* table is as before (no row, no table created), nothing is printed and the
\* exit status is 1.
C3_ConnectFailureAborts ==
    fault = "connect" /\ "connect" \in Range(trace) =>
        /\ pc = "aborted"
        /\ trace = <<"get", "json", "extract", "now", "connect">>
        /\ response # << >>
        /\ price_usd \in Prices
        /\ timestamp \in Times
        /\ conn = "none"
        /\ ~txCreate /\ txRows = {}
        /\ rows = startRows /\ tableExists = startExists
        /\ stdout = << >>
        /\ exitStatus = 1

C3_Witness ==
    /\ pc = "aborted"
    /\ fault = "connect"
    /\ Last(trace) = "connect"
    /\ ~tableExists
    /\ run = 1

\* C4: a successful invocation whose timestamp t was not in the table leaves
\* exactly one more row, (t, p), with p the 'usd' value of the API response.
C4_StoresApiPrice ==
    pc = "done" /\ TimestampFresh =>
        \E r \in rows :
            /\ r.timestamp = ToTimestamptz(timestamp)
            /\ r.price_usd = response[1].json[1].bitcoin.usd
            /\ r \notin startRows
            /\ rows = startRows \cup {r}

C4_Witness ==
    /\ pc = "done"
    /\ TimestampFresh
    /\ startRows # {}
    /\ response[1].json[1].bitcoin.usd = MaxPrice

C6_CreateIdempotent ==
    /\ tablesCreated = (IF tableExists THEN 1 ELSE 0)
    /\ startExists =>
        /\ tableExists
        /\ ~txCreate
        /\ pc = "aborted" /\ Last(trace) = "create" => fault = "create"
        /\ pc = "insert" => rows = startRows
    /\ ~startExists =>
        (tableExists <=> pc \in {"cur_close", "conn_close", "print", "done"})

C6_Witness ==
    /\ startExists
    /\ pc = "insert"
    /\ startRows # {}
    /\ fault = "none"

\* C7: during and after an invocation, every row that was in the table when
\* it started is still there unchanged, and at most one row has been added.
C7_AddsAtMostOneRow ==
    /\ startRows \subseteq rows
    /\ Cardinality(rows \ startRows) <= 1
    /\ pc = "aborted" => rows = startRows

C7_Witness ==
    /\ pc = "done"
    /\ Cardinality(startRows) = 2
    /\ Cardinality(rows) = 3

\* The statements of the script, in the order of the source.
StepOrder ==
    <<"get", "json", "extract", "now", "connect", "cursor", "create",
      "insert", "commit", "cur_close", "conn_close", "print">>

C8_OrderInv ==
    /\ IsPrefix(trace, StepOrder)
    /\ pc \notin Terminal => pc = StepOrder[Len(trace) + 1]
    /\ pc = "done" => trace = StepOrder
    /\ pc = "aborted" =>
        /\ trace # << >>
        /\ Last(trace) # "print"
        /\ stdout = << >>
        /\ exitStatus = 1
    /\ timestamp # Unbound => data # << >> /\ price_usd # Unbound
    /\ conn # "none" => timestamp # Unbound
    /\ stdout # << >> =>
        /\ Len(stdout) = 1
        /\ conn = "closed" /\ cur = "closed"
        /\ ~txCreate /\ txRows = {}
        /\ {"commit", "cur_close", "conn_close"} \subseteq Range(trace)

\* Once an invocation has ended, the only step is the start of a new one.
C8_AfterEnd ==
    (pc = "aborted" \/ pc = "done") => (pc' = "get" /\ trace' = << >>)

\* C8: the statements run in the one order of the source, none skipped or
\* repeated: the timestamp is captured after the parse and before the
\* connect, the line is printed only after commit and both closes, and after
\* a failure nothing more of the invocation runs (the next step is a new
\* invocation).
C8_FixedOrder ==
    /\ []C8_OrderInv
    /\ [][C8_AfterEnd]_vars

C8_Witness ==
    /\ pc = "done"
    /\ trace = StepOrder
    /\ run = 2
    /\ successes = << >>

\* C9: a failure of the CREATE TABLE or of the INSERT aborts with cursor and
\* connection still open and nothing of the invocation committed; cursor and
\* connection are closed only on the path to the normal end, and both are
\* closed when it is reached.
C9_ClosedOnlyOnSuccess ==
    /\ fault \in {"create", "insert"} /\ fault \in Range(trace) =>
        /\ pc = "aborted"
        /\ Last(trace) = fault
        /\ conn = "open" /\ cur = "open"
        /\ "commit" \notin Range(trace)
        /\ rows = startRows /\ tableExists = startExists
    /\ pc = "done" => conn = "closed" /\ cur = "closed"
    /\ cur = "closed" => pc \in {"conn_close", "print", "done"}
    /\ conn = "closed" => pc \in {"print", "done"}

C9_Witness ==
    /\ pc = "aborted"
    /\ fault = "insert"
    /\ Last(trace) = "insert"
    /\ txCreate
    /\ conn = "open"

\* C10: whenever an invocation has printed its line and exited with status
\* 0, the table holds a row with the printed timestamp and the printed price.
C10_PrintedRowInTable ==
    pc = "done" /\ exitStatus = 0 /\ stdout # << >> =>
        \E r \in rows :
            /\ r.timestamp = ToTimestamptz(stdout[1].timestamp)
            /\ r.price_usd = stdout[1].price_usd

====
